---- MODULE Spec2Model ----
(***************************************************************************)
(* Numbrle: the puzzle engine of src/src/game.ts and the game session of   *)
(* src/src/App.tsx.                                                        *)
(*                                                                         *)
(* A JavaScript string is modelled as a sequence of one-character strings. *)
(* The multiplication sign U+00D7 is written "*" and the division sign     *)
(* U+00F7 is written "/"; "a" stands for any character outside VALID_CHARS.*)
(* A value of type number | null is a record [ok, val]: ok = FALSE is null.*)
(***************************************************************************)
EXTENDS Integers, Sequences, FiniteSets, TLC

VARIABLES
  today,        \* the calendar day of the wall clock, as a day index
  target,       \* App: const target = getDailyTarget(), as of the last render
  dayNumber,    \* App: const dayNumber = getDayNumber(), as of the last render
  guesses,      \* App: useState guesses
  currentGuess, \* App: useState currentGuess
  finished,     \* App: useState finished
  won,          \* App: useState won
  stats,        \* App: useState stats
  toasts,       \* App: useState toasts
  shakeRow,     \* App: useState shakeRow
  shakeTimers,  \* pending setTimeout(() => setShakeRow(false), 300)
  winTimer,     \* pending setTimeout of the end-of-game toast
  storedStats,  \* localStorage[STATS_KEY]
  storedState,  \* localStorage[STATE_KEY]
  fn,           \* the function a pure-function specification applies
  arg,          \* its input
  ret,          \* its result
  done          \* whether it has been applied

vars == <<today, target, dayNumber, guesses, currentGuess, finished, won, stats,
          toasts, shakeRow, shakeTimers, winTimer, storedStats, storedState,
          fn, arg, ret, done>>

appVars == <<today, target, dayNumber, guesses, currentGuess, finished, won, stats,
             toasts, shakeRow, shakeTimers, winTimer, storedStats, storedState>>

fnVars == <<fn, arg, ret, done>>

(***************************************************************************)
(* Constants of game.ts                                                    *)
(***************************************************************************)
EQUATION_LENGTH == 6

MAX_GUESSES == 6

\* The targets getDailyTarget can return: (x % 99) + 1
MaxTarget == 99

Digits == {"0", "1", "2", "3", "4", "5", "6", "7", "8", "9"}

Operators == {"+", "-", "*", "/"}

VALID_CHARS == Digits \cup Operators \cup {"="}

DigitChar == <<"0", "1", "2", "3", "4", "5", "6", "7", "8", "9">>

DigitVal(ch) == CHOOSE d \in 0..9 : DigitChar[d + 1] = ch

Max(a, b) == IF a >= b THEN a ELSE b

\* All sequences over S of length at most n
RECURSIVE SeqsUpTo(_, _)
SeqsUpTo(S, n) ==
  IF n = 0 THEN {<<>>}
  ELSE LET shorter == SeqsUpTo(S, n - 1)
       IN  shorter \cup {Append(s, c) : s \in {t \in shorter : Len(t) = n - 1}, c \in S}

SeqsOfLen(S, n) == {s \in SeqsUpTo(S, n) : Len(s) = n}

(***************************************************************************)
(* String(n), Number(s) and padStart, for the strings the program builds   *)
(***************************************************************************)
\* String(n) for an integer n >= 0: decimal digits, no leading zero
RECURSIVE ToStr(_)
ToStr(n) == IF n < 10 THEN <<DigitChar[n + 1]>>
            ELSE Append(ToStr(n \div 10), DigitChar[(n % 10) + 1])

\* s.padStart(n, '0')
RECURSIVE padStart(_, _)
padStart(s, n) == IF Len(s) >= n THEN s ELSE padStart(<<"0">> \o s, n)

\* The value of a run of digits (leading zeros allowed); 0 for the empty run
RECURSIVE DigitsVal(_)
DigitsVal(s) == IF s = <<>> THEN 0
                ELSE 10 * DigitsVal(SubSeq(s, 1, Len(s) - 1)) + DigitVal(s[Len(s)])

AllDigits(s) == \A i \in 1..Len(s) : s[i] \in Digits

NULL == [ok |-> FALSE, val |-> 0]

Some(v) == [ok |-> TRUE, val |-> v]

\* Number(s) over the game's alphabet: an optional sign and a run of digits, "" is 0,
\* anything else is NaN (modelled as NULL)
Number(s) ==
  IF s = <<>> THEN Some(0)
  ELSE IF AllDigits(s) THEN Some(DigitsVal(s))
  ELSE IF s[1] \in {"+", "-"} /\ Len(s) >= 2 /\ AllDigits(Tail(s))
       THEN Some(IF s[1] = "-" THEN 0 - DigitsVal(Tail(s)) ELSE DigitsVal(Tail(s)))
  ELSE NULL

(***************************************************************************)
(* evaluate (game.ts 25-81)                                                *)
(***************************************************************************)
NumTok(buf) == [type |-> "num", value |-> buf]

OpTok(ch) == [type |-> "op", value |-> <<ch>>]

\* The tokenizing loop, lines 31-42: ok = FALSE is an early return null
RECURSIVE Tokenize(_, _, _, _)
Tokenize(expr, i, tokens, numBuf) ==
  IF i > Len(expr) THEN [ok |-> TRUE, tokens |-> tokens, numBuf |-> numBuf]
  ELSE LET ch == expr[i] IN
       IF ch \in Digits THEN Tokenize(expr, i + 1, tokens, Append(numBuf, ch))
       ELSE IF ch \in Operators THEN
              IF numBuf = <<>> THEN [ok |-> FALSE, tokens |-> tokens, numBuf |-> numBuf]
              ELSE Tokenize(expr, i + 1, tokens \o <<NumTok(numBuf), OpTok(ch)>>, <<>>)
       ELSE [ok |-> FALSE, tokens |-> tokens, numBuf |-> numBuf]

\* MulDivPass with the quotient rounded down instead of the integer test of line 65
RECURSIVE MulDivPassFloor(_, _, _, _)
MulDivPassFloor(tokens, i, nums, opList) ==
  IF i > Len(tokens) THEN [ok |-> TRUE, nums |-> nums, ops |-> opList]
  ELSE LET op   == tokens[i].value[1]
           num  == DigitsVal(tokens[i + 1].value)
           prev == nums[Len(nums)]
           rest == SubSeq(nums, 1, Len(nums) - 1)
       IN  IF op = "*" THEN MulDivPassFloor(tokens, i + 2, Append(rest, prev * num), opList)
           ELSE IF op = "/" THEN
                  IF num = 0 THEN [ok |-> FALSE, nums |-> nums, ops |-> opList]
                  ELSE MulDivPassFloor(tokens, i + 2, Append(rest, prev \div num), opList)
           ELSE MulDivPassFloor(tokens, i + 2, Append(nums, num), Append(opList, op))

\* The precedence loop, lines 55-72; i is the 1-based index of an operator token
RECURSIVE MulDivPass(_, _, _, _)
MulDivPass(tokens, i, nums, opList) ==
  IF i > Len(tokens) THEN [ok |-> TRUE, nums |-> nums, ops |-> opList]
  ELSE LET op   == tokens[i].value[1]
           num  == DigitsVal(tokens[i + 1].value)
           prev == nums[Len(nums)]
           rest == SubSeq(nums, 1, Len(nums) - 1)
       IN  IF op = "*" THEN MulDivPass(tokens, i + 2, Append(rest, prev * num), opList)
           ELSE IF op = "/" THEN
                  IF num = 0 THEN [ok |-> FALSE, nums |-> nums, ops |-> opList]
                  ELSE IF prev % num # 0 THEN [ok |-> FALSE, nums |-> nums, ops |-> opList]
                  ELSE MulDivPass(tokens, i + 2, Append(rest, prev \div num), opList)
           ELSE MulDivPass(tokens, i + 2, Append(nums, num), Append(opList, op))

\* The folding loop, lines 74-78
RECURSIVE AddSubPass(_, _, _, _)
AddSubPass(nums, opList, i, result) ==
  IF i > Len(opList) THEN result
  ELSE AddSubPass(nums, opList, i + 1,
                  IF opList[i] = "+" THEN result + nums[i + 1] ELSE result - nums[i + 1])

evaluate(expr) ==
  LET t == Tokenize(expr, 1, <<>>, <<>>) IN
  IF ~t.ok THEN NULL
  ELSE IF t.numBuf = <<>> THEN NULL
  ELSE LET tokens == Append(t.tokens, NumTok(t.numBuf)) IN
       IF Len(tokens) = 0 THEN NULL
       ELSE IF tokens[1].type # "num" THEN NULL
       ELSE LET p == MulDivPass(tokens, 2, <<DigitsVal(tokens[1].value)>>, <<>>) IN
            IF ~p.ok THEN NULL
            ELSE Some(AddSubPass(p.nums, p.ops, 1, p.nums[1]))

(***************************************************************************)
(* validateGuess (game.ts 83-115)                                          *)
(***************************************************************************)
\* s.split(sep) for a one-character separator
RECURSIVE split(_, _)
split(s, sep) ==
  IF \A i \in 1..Len(s) : s[i] # sep THEN <<s>>
  ELSE LET p == CHOOSE i \in 1..Len(s) : s[i] = sep /\ \A j \in 1..(i - 1) : s[j] # sep
       IN  <<SubSeq(s, 1, p - 1)>> \o split(SubSeq(s, p + 1, Len(s)), sep)

Invalid(error) == [valid |-> FALSE, error |-> error]

Valid == [valid |-> TRUE, error |-> "none"]

\* The error strings, without the numbers interpolated into them
ErrLength == "Equation must be 6 characters"

ErrOneEq == "Equation must contain exactly one ="

ErrSides == "Both sides of = must have values"

ErrRight == "Right side must equal target"

ErrExpr == "Invalid expression"

ErrValue == "Expression equals leftVal, not target"

\* RightSideOk without the comparison right !== String(target)
RightSideNoVerbatim(right, t) ==
  LET rightVal == Number(right) IN rightVal.ok /\ rightVal.val = t

\* Line 101, negated: the right side is accepted
RightSideOk(right, t) ==
  LET rightVal == Number(right)
  IN  ~(~rightVal.ok \/ rightVal.val # t \/ right # ToStr(t))

validateGuess(guess, t) ==
  IF Len(guess) # EQUATION_LENGTH THEN Invalid(ErrLength)
  ELSE LET eqParts == split(guess, "=") IN
       IF Len(eqParts) # 2 THEN Invalid(ErrOneEq)
       ELSE LET left  == eqParts[1]
                right == eqParts[2]
            IN  IF Len(left) = 0 \/ Len(right) = 0 THEN Invalid(ErrSides)
                ELSE IF ~RightSideOk(right, t) THEN Invalid(ErrRight)
                ELSE LET leftVal == evaluate(left) IN
                     IF ~leftVal.ok THEN Invalid(ErrExpr)
                     ELSE IF leftVal.val # t THEN Invalid(ErrValue)
                     ELSE Valid

(***************************************************************************)
(* findSolution and getCanonicalSolution (game.ts 163-277)                 *)
(***************************************************************************)
ops == <<"+", "-", "*", "/">>

\* Matches testing only that the candidate evaluates, not that it evaluates to target
MatchesAnyValue(expr, t, length) == Len(expr) = length /\ evaluate(expr).ok

\* The test of every candidate: expr.length === length && evaluate(expr) === target
Matches(expr, t, length) == Len(expr) = length /\ evaluate(expr) = Some(t)

\* The first of the candidates cand[0], cand[1], ..., in that order, that matches
FirstMatch(cand, t, length) ==
  LET hits == {k \in DOMAIN cand : Matches(cand[k], t, length)}
  IN  IF hits = {} THEN [found |-> FALSE, expr |-> <<>>]
      ELSE [found |-> TRUE, expr |-> cand[CHOOSE k \in hits : \A j \in hits : k <= j]]

\* Lines 191-206: op, a in 0..99, b in 0..9, expr then expr2
Cand4a(k) ==
  LET op  == ops[(k \div 2000) + 1]
      a   == (k % 2000) \div 20
      b   == (k % 20) \div 2
      aStr == padStart(ToStr(a), 2)
  IN  IF k % 2 = 0 THEN aStr \o <<op>> \o ToStr(b)
      ELSE ToStr(b) \o <<op>> \o aStr

\* Lines 208-215: op, a in 100..999, b in 0..9
Cand4b(k) ==
  LET op == ops[(k \div 9000) + 1]
      a  == 100 + ((k % 9000) \div 10)
      b  == k % 10
  IN  ToStr(a) \o <<op>> \o ToStr(b)

\* Lines 220-227: op, a in 0..9, b in 0..9
Cand3(k) ==
  LET op == ops[(k \div 100) + 1]
      a  == (k % 100) \div 10
      b  == k % 10
  IN  ToStr(a) \o <<op>> \o ToStr(b)

\* Lines 244-259: per op, first a, b in 10..99, then a in 100..999, b in 0..9 with
\* expr then expr2
Cand5a(k) ==
  LET op == ops[(k \div 26100) + 1]
      r  == k % 26100
  IN  IF r < 8100
      THEN ToStr(10 + (r \div 90)) \o <<op>> \o ToStr(10 + (r % 90))
      ELSE LET q == r - 8100
               a == 100 + (q \div 20)
               b == (q % 20) \div 2
           IN  IF q % 2 = 0 THEN ToStr(a) \o <<op>> \o ToStr(b)
               ELSE ToStr(b) \o <<op>> \o ToStr(a)

\* Lines 261-272: op1, op2, a, b, c in 0..9
Cand5b(k) ==
  LET op1 == ops[(k \div 4000) + 1]
      op2 == ops[((k % 4000) \div 1000) + 1]
      a   == (k % 1000) \div 100
      b   == (k % 100) \div 10
      c   == k % 10
  IN  ToStr(a) \o <<op1>> \o ToStr(b) \o <<op2>> \o ToStr(c)

\* Fallback without padStart
FallbackNoPad(t, length) == [expr |-> ToStr(t), via |-> "fallback"]

\* Line 276
Fallback(t, length) == [expr |-> padStart(ToStr(t), length), via |-> "fallback"]

\* The left side found and the return statement that produced it
findSolution(t, length) ==
  IF length = 4 THEN
    LET m1 == FirstMatch([k \in 0..7999 |-> Cand4a(k)], t, length) IN
    IF m1.found THEN [expr |-> m1.expr, via |-> "AB_op_C"]
    ELSE LET m2 == FirstMatch([k \in 0..35999 |-> Cand4b(k)], t, length) IN
         IF m2.found THEN [expr |-> m2.expr, via |-> "ABC_op_D"]
         ELSE Fallback(t, length)
  ELSE IF length = 3 THEN
    LET m == FirstMatch([k \in 0..399 |-> Cand3(k)], t, length) IN
    IF m.found THEN [expr |-> m.expr, via |-> "d_op_d"]
    ELSE Fallback(t, length)
  ELSE IF length = 5 THEN
    LET m1 == FirstMatch([k \in 0..104399 |-> Cand5a(k)], t, length) IN
    IF m1.found THEN [expr |-> m1.expr, via |-> "AB_op_CD"]
    ELSE LET m2 == FirstMatch([k \in 0..15999 |-> Cand5b(k)], t, length) IN
         IF m2.found THEN [expr |-> m2.expr, via |-> "d_op_d_op_d"]
         ELSE Fallback(t, length)
  ELSE Fallback(t, length)

getCanonicalSolution(t) ==
  LET targetStr == ToStr(t)
      rightSide == <<"=">> \o targetStr
      leftLen   == EQUATION_LENGTH - Len(rightSide)
      solution  == findSolution(t, leftLen).expr
  IN  solution \o rightSide

\* getCanonicalSolution is pure: its value per target, computed once
CanonicalOf == [t \in 1..MaxTarget |-> getCanonicalSolution(t)]

(***************************************************************************)
(* getGuessResult (game.ts 119-159)                                        *)
(***************************************************************************)
\* s[i] in JavaScript: undefined past the end
At(s, i) == IF i <= Len(s) THEN s[i] ELSE "undefined"

Cells == 1..EQUATION_LENGTH

\* Lines 139-144; used is the set of consumed solution positions
FirstPass(guess, solution) ==
  [result |-> [i \in Cells |-> IF At(guess, i) = At(solution, i) THEN "correct" ELSE "absent"],
   used   |-> {i \in Cells : At(guess, i) = At(solution, i)}]

\* SecondPass without used[j] = true
RECURSIVE SecondPassNoConsume(_, _, _, _, _)
SecondPassNoConsume(guess, solution, i, result, used) ==
  IF i > EQUATION_LENGTH THEN result
  ELSE IF result[i] = "correct" THEN SecondPassNoConsume(guess, solution, i + 1, result, used)
  ELSE LET free == {j \in Cells : j \notin used /\ At(guess, i) = At(solution, j)} IN
       IF free = {} THEN SecondPassNoConsume(guess, solution, i + 1, result, used)
       ELSE SecondPassNoConsume(guess, solution, i + 1,
                                [result EXCEPT ![i] = "present"], used)

\* Lines 147-156
RECURSIVE SecondPass(_, _, _, _, _)
SecondPass(guess, solution, i, result, used) ==
  IF i > EQUATION_LENGTH THEN result
  ELSE IF result[i] = "correct" THEN SecondPass(guess, solution, i + 1, result, used)
  ELSE LET free == {j \in Cells : j \notin used /\ At(guess, i) = At(solution, j)} IN
       IF free = {} THEN SecondPass(guess, solution, i + 1, result, used)
       ELSE LET j == CHOOSE x \in free : \A y \in free : x <= y
            IN  SecondPass(guess, solution, i + 1,
                           [result EXCEPT ![i] = "present"], used \cup {j})

getGuessResult(guess, t) ==
  LET canonical == CanonicalOf[t]
      p == FirstPass(guess, canonical)
  IN  SecondPass(guess, canonical, 1, p.result, p.used)

(***************************************************************************)
(* getDailyTarget (game.ts 2-10)                                           *)
(* A 32-bit integer is the pair of its 16-bit halves [hi, lo], the bits of *)
(* its two's-complement form, so that no intermediate value leaves the     *)
(* range of the model checker's integers.                                  *)
(***************************************************************************)
W16 == 65536

Word(hi, lo) == [hi |-> hi % W16, lo |-> lo % W16]

\* x << n, for n < 16
Shl(x, n) ==
  LET f  == 2 ^ n
      lo == x.lo * f
  IN  Word(x.hi * f + (lo \div W16), lo)

\* (x - y) | 0
Sub32(x, y) ==
  LET lo == x.lo - y.lo
      borrow == IF lo < 0 THEN 1 ELSE 0
  IN  Word(x.hi - y.hi - borrow + W16, lo + W16)

\* (x + c) | 0 for 0 <= c < 65536
AddSmall32(x, c) ==
  LET lo == x.lo + c
  IN  Word(x.hi + (lo \div W16), lo)

\* x & 0x7fffffff, a number in 0..2^31-1
Mask31(x) == (x.hi % 32768) * W16 + x.lo

\* charCodeAt for the characters of a date string
charCode(ch) == IF ch = "-" THEN 45 ELSE 48 + DigitVal(ch)

\* Line 3: YYYY-MM-DD; month is getMonth() + 1
dateStr(date) ==
  ToStr(date.year) \o <<"-">> \o padStart(ToStr(date.month), 2)
                   \o <<"-">> \o padStart(ToStr(date.day), 2)

\* HashStep without "- hash": the hash multiplied by 32
HashStepNoSub(hash, ch) == AddSmall32(Shl(hash, 5), charCode(ch))

\* Line 6: hash = ((hash << 5) - hash + dateStr.charCodeAt(i)) | 0
HashStep(hash, ch) == AddSmall32(Sub32(Shl(hash, 5), hash), charCode(ch))

RECURSIVE HashLoop(_, _, _)
HashLoop(s, i, hash) ==
  IF i > Len(s) THEN hash ELSE HashLoop(s, i + 1, HashStep(hash, s[i]))

hashOf(s) == HashLoop(s, 1, Word(0, 0))

getDailyTarget(date) == (Mask31(hashOf(dateStr(date))) % 99) + 1

(***************************************************************************)
(* Persisted records (game.ts 282-326); an absent key is present = FALSE   *)
(***************************************************************************)
\* Line 299: the statistics of a player who has no stored record
DefaultStats ==
  [played |-> 0, won |-> 0, streak |-> 0, maxStreak |-> 0,
   guessDistribution |-> <<0, 0, 0, 0, 0, 0>>, lastDay |-> 0]

NoStats == [present |-> FALSE, value |-> DefaultStats]

NoState ==
  [present |-> FALSE,
   value |-> [day |-> 0, guesses |-> <<>>, finished |-> FALSE, won |-> FALSE]]

\* The session variables of a specification that applies a pure function only
AppIdle ==
  /\ today = 0 /\ target = 0 /\ dayNumber = 0
  /\ guesses = <<>> /\ currentGuess = <<>>
  /\ finished = FALSE /\ won = FALSE
  /\ stats = DefaultStats
  /\ toasts = <<>> /\ shakeRow = FALSE /\ shakeTimers = 0 /\ winTimer = FALSE
  /\ storedStats = NoStats /\ storedState = NoState

(***************************************************************************)
(* SpecCanon: getCanonicalSolution applied to every target 1..99, and      *)
(* validateGuess applied to its result                                     *)
(***************************************************************************)
InitCanon ==
  /\ AppIdle
  /\ fn = "getCanonicalSolution"
  /\ arg \in 1..MaxTarget
  /\ ret = [solution |-> [expr |-> <<>>, via |-> "none"], canonical |-> <<>>,
            validation |-> Invalid("none")]
  /\ done = FALSE

CallCanon ==
  /\ fn = "getCanonicalSolution" /\ ~done
  /\ LET canonical == getCanonicalSolution(arg)
     IN  ret' = [solution   |-> findSolution(arg, EQUATION_LENGTH - Len(<<"=">> \o ToStr(arg))),
                 canonical  |-> canonical,
                 validation |-> validateGuess(canonical, arg)]
  /\ done' = TRUE
  /\ UNCHANGED <<fn, arg>>
  /\ UNCHANGED appVars

NextCanon == CallCanon

SpecCanon == InitCanon /\ [][NextCanon]_vars

EqPositions(s) == {i \in 1..Len(s) : s[i] = "="}

LeftOf(s) == SubSeq(s, 1, (CHOOSE i \in EqPositions(s) : TRUE) - 1)

RightOf(s) == SubSeq(s, (CHOOSE i \in EqPositions(s) : TRUE) + 1, Len(s))

\* C1: for every target t in 1..99 the canonical solution has length 6 and exactly
\* one '=', its right side is the decimal string of t and its left side evaluates to t
C1_CanonicalWellFormed ==
  done => /\ Len(ret.canonical) = 6
          /\ Cardinality(EqPositions(ret.canonical)) = 1
          /\ RightOf(ret.canonical) = ToStr(arg)
          /\ evaluate(LeftOf(ret.canonical)) = Some(arg)

C1_Witness ==
  done /\ arg = 42 /\ ret.canonical = <<"6", "*", "7", "=", "4", "2">>

\* C2: for every target t in 1..99 findSolution returns from a structured operator
\* pattern and never from the final zero-padded fallback
C2_NeverFallback == done => ret.solution.via # "fallback"

\* C3: for every target t in 1..99 validateGuess accepts the canonical solution
C3_CanonicalValid == done => ret.validation.valid

C3_Witness ==
  done /\ arg = 7 /\ ret.canonical = <<"0", "0", "+", "7", "=", "7">> /\ ret.validation = Valid

(***************************************************************************)
(* SpecEval: evaluate applied to every string of at most MaxExprLen        *)
(* characters of EvalChars ("=" is a character outside evaluate's set),    *)
(* and to the expressions the specification names                          *)
(***************************************************************************)
MaxExprLen == 5

EvalChars == {"0", "2", "3", "+", "-", "*", "/", "="}

EvalExamples ==
  { <<"6", "*", "7">>, <<"2", "+", "3", "*", "4">>, <<"1", "0", "/", "3">>,
    <<"5", "/", "0">>, <<"9", "a">> }

InitEval ==
  /\ AppIdle
  /\ fn = "evaluate"
  /\ arg \in SeqsUpTo(EvalChars, MaxExprLen) \cup EvalExamples
  /\ ret = NULL
  /\ done = FALSE

CallEval ==
  /\ fn = "evaluate" /\ ~done
  /\ ret' = evaluate(arg)
  /\ done' = TRUE
  /\ UNCHANGED <<fn, arg>>
  /\ UNCHANGED appVars

NextEval == CallEval

SpecEval == InitEval /\ [][NextEval]_vars

\* The syntax the claim describes: non-empty, only digits and operators, no operator
\* first or last, no two operators side by side
WellFormed(s) ==
  /\ s # <<>>
  /\ \A i \in 1..Len(s) : s[i] \in Digits \cup Operators
  /\ s[1] \notin Operators
  /\ s[Len(s)] \notin Operators
  /\ \A i \in 1..(Len(s) - 1) : ~(s[i] \in Operators /\ s[i + 1] \in Operators)

\* s cut at the characters of seps: the pieces, each with the separator before it
\* (lead before the first)
RECURSIVE Pieces(_, _, _)
Pieces(s, seps, lead) ==
  LET cuts == {i \in 1..Len(s) : s[i] \in seps} IN
  IF cuts = {} THEN <<[op |-> lead, body |-> s]>>
  ELSE LET p == CHOOSE i \in cuts : \A j \in cuts : j <= i
       IN  Append(Pieces(SubSeq(s, 1, p - 1), seps, lead),
                  [op |-> s[p], body |-> SubSeq(s, p + 1, Len(s))])

\* A product term: its factors multiplied and divided left to right
RECURSIVE FoldFactors(_, _)
FoldFactors(fs, n) ==
  IF n = 1 THEN Some(DigitsVal(fs[1].body))
  ELSE LET acc == FoldFactors(fs, n - 1)
           v   == DigitsVal(fs[n].body)
       IN  IF ~acc.ok THEN NULL
           ELSE IF fs[n].op = "*" THEN Some(acc.val * v)
           ELSE IF v = 0 \/ acc.val % v # 0 THEN NULL
           ELSE Some(acc.val \div v)

TermValue(term) == LET fs == Pieces(term, {"*", "/"}, "*") IN FoldFactors(fs, Len(fs))

\* The terms added and subtracted left to right
RECURSIVE FoldTerms(_, _)
FoldTerms(ts, n) ==
  IF n = 0 THEN Some(0)
  ELSE LET acc == FoldTerms(ts, n - 1)
           v   == TermValue(ts[n].body)
       IN  IF ~acc.ok \/ ~v.ok THEN NULL
           ELSE IF ts[n].op = "+" THEN Some(acc.val + v.val)
           ELSE Some(acc.val - v.val)

Precedence(s) ==
  IF ~WellFormed(s) THEN NULL
  ELSE LET ts == Pieces(s, {"+", "-"}, "+") IN FoldTerms(ts, Len(ts))

\* C4: evaluate is null on an empty string, a leading or trailing operator, two
\* adjacent operators, a character outside the set, a division by 0 or with a
\* non-integer quotient; otherwise it is the value with * and / resolved left to
\* right before + and - are folded left to right
C4_EvaluatePrecedence ==
  done => /\ ret = Precedence(arg)
          /\ (arg = <<"6", "*", "7">> => ret = Some(42))
          /\ (arg = <<"2", "+", "3", "*", "4">> => ret = Some(14))
          /\ (arg = <<"1", "0", "/", "3">> => ret = NULL)
          /\ (arg = <<"5", "/", "0">> => ret = NULL)

C4_Witness == done /\ arg = <<"2", "+", "3", "*", "4">> /\ ret = Some(14)

(***************************************************************************)
(* SpecValidate: validateGuess applied to every string of at most          *)
(* MaxGuessLen characters of ValidateChars, for the targets ValidateTargets*)
(***************************************************************************)
MaxGuessLen == 7

ValidateChars == {"0", "7", "+", "="}

ValidateTargets == {7, 70}

InitValidate ==
  /\ AppIdle
  /\ fn = "validateGuess"
  /\ arg \in [guess : SeqsUpTo(ValidateChars, MaxGuessLen), target : ValidateTargets]
  /\ ret = Invalid("none")
  /\ done = FALSE

CallValidate ==
  /\ fn = "validateGuess" /\ ~done
  /\ ret' = validateGuess(arg.guess, arg.target)
  /\ done' = TRUE
  /\ UNCHANGED <<fn, arg>>
  /\ UNCHANGED appVars

NextValidate == CallValidate

SpecValidate == InitValidate /\ [][NextValidate]_vars

\* The six checks of the claim, each stated on the guess itself
Check1(g) == Len(g) = 6

Check2(g) == Cardinality(EqPositions(g)) = 1

Check3(g) == LeftOf(g) # <<>> /\ RightOf(g) # <<>>

Check4(g, t) == RightOf(g) = ToStr(t)

Check5(g) == evaluate(LeftOf(g)).ok

Check6(g, t) == evaluate(LeftOf(g)).val = t

FirstFailure(g, t) ==
  IF ~Check1(g) THEN Invalid(ErrLength)
  ELSE IF ~Check2(g) THEN Invalid(ErrOneEq)
  ELSE IF ~Check3(g) THEN Invalid(ErrSides)
  ELSE IF ~Check4(g, t) THEN Invalid(ErrRight)
  ELSE IF ~Check5(g) THEN Invalid(ErrExpr)
  ELSE IF ~Check6(g, t) THEN Invalid(ErrValue)
  ELSE Valid

\* C5: validateGuess reports the reason of the first failing check in the order
\* length, one '=', both sides, right side verbatim, evaluable, equal to target; a
\* guess whose length is not 6 gets the length reason whatever it holds; valid is
\* TRUE only when all six checks pass
C5_ValidateOrder ==
  done => /\ ret = FirstFailure(arg.guess, arg.target)
          /\ (Len(arg.guess) # 6 => ret = Invalid(ErrLength))
          /\ (ret.valid <=> ret = Valid)

C5_Witness ==
  /\ done
  /\ arg = [guess |-> <<"0", "+", "7", "=", "0", "7">>, target |-> 7]
  /\ ret = Invalid(ErrRight)

(***************************************************************************)
(* SpecScore: getGuessResult applied to every 6-character guess over the   *)
(* characters of one target's canonical solution (target 42, "6*7=42") and *)
(* over those of another with repeated characters (target 4, "00+4=4")     *)
(***************************************************************************)
\* The guesses scored for target t: every 6-character string over chars
ScoreInputs(t, chars) ==
  {[guess |-> g, target |-> t] : g \in SeqsOfLen(chars, EQUATION_LENGTH)}

InitScore ==
  /\ AppIdle
  /\ fn = "getGuessResult"
  /\ arg \in ScoreInputs(42, {"6", "7", "*", "=", "4", "2"})
             \cup ScoreInputs(4, {"0", "4", "+", "=", "1"})
  /\ ret = [i \in Cells |-> "empty"]
  /\ done = FALSE

CallScore ==
  /\ fn = "getGuessResult" /\ ~done
  /\ ret' = getGuessResult(arg.guess, arg.target)
  /\ done' = TRUE
  /\ UNCHANGED <<fn, arg>>
  /\ UNCHANGED appVars

NextScore == CallScore

SpecScore == InitScore /\ [][NextScore]_vars

\* The cell of guess position i against solution c, by counting: a position that
\* is not correct is present when fewer earlier not-correct positions of the guess
\* hold its character than the solution has positions holding it that no correct
\* cell consumed
CellByCount(g, c, i) ==
  IF g[i] = c[i] THEN "correct"
  ELSE LET avail  == Cardinality({j \in Cells : c[j] = g[i] /\ g[j] # c[j]})
           before == Cardinality({k \in 1..(i - 1) : g[k] = g[i] /\ g[k] # c[k]})
       IN  IF before < avail THEN "present" ELSE "absent"

FirstYear == 2026

MaxYearSpan == 1

IsLeap(y) == (y % 4 = 0 /\ y % 100 # 0) \/ y % 400 = 0

DaysIn(y, m) ==
  IF m = 2 THEN (IF IsLeap(y) THEN 29 ELSE 28)
  ELSE IF m \in {4, 6, 9, 11} THEN 30 ELSE 31

Dates ==
  {d \in [year : FirstYear..(FirstYear + MaxYearSpan), month : 1..12, day : 1..31] :
     d.day <= DaysIn(d.year, d.month)}

InitHash ==
  /\ AppIdle
  /\ fn = "getDailyTarget"
  /\ arg \in Dates
  /\ ret = 0
  /\ done = FALSE

CallHash ==
  /\ fn = "getDailyTarget" /\ ~done
  /\ ret' = getDailyTarget(arg)
  /\ done' = TRUE
  /\ UNCHANGED <<fn, arg>>
  /\ UNCHANGED appVars

NextHash == CallHash

SpecHash == InitHash /\ [][NextHash]_vars

\* H * 31 + c wrapped to 32 bits
Times31Plus(x, c) ==
  LET lo == x.lo * 31 + c
  IN  [hi |-> (x.hi * 31 + (lo \div W16)) % W16, lo |-> lo % W16]

RECURSIVE Hash31(_, _)
Hash31(s, n) ==
  IF n = 0 THEN [hi |-> 0, lo |-> 0]
  ELSE Times31Plus(Hash31(s, n - 1), charCode(s[n]))

\* The 32-bit pattern read as a signed integer
Signed(x) == IF x.hi >= 32768 THEN (x.hi - W16) * W16 + x.lo ELSE x.hi * W16 + x.lo

\* v & 0x7fffffff for a signed 32-bit v: the sign bit cleared
ClearSign(v) == IF v < 0 THEN (v + 2147483647) + 1 ELSE v

\* C7: getDailyTarget of a date string is ((H & 0x7fffffff) mod 99) + 1 for the
\* hash H = H * 31 + charCode wrapped to 32-bit signed from 0, and lies in 1..99
C7_DailyTargetHash ==
  done => /\ ret = (ClearSign(Signed(Hash31(dateStr(arg), Len(dateStr(arg))))) % 99) + 1
          /\ ret \in 1..99

C7_Witness == done /\ arg = [year |-> 2026, month |-> 2, day |-> 15] /\ ret = 55

(***************************************************************************)
(* Spec: the game session of App.tsx.                                      *)
(*                                                                         *)
(* The clock is the day index today; day 1 is the epoch 2026-02-15 of      *)
(* getDayNumber, in a time zone where the epoch's local date is that date. *)
(* The component body runs at every render, so target and dayNumber are    *)
(* the values of the last render: every step that changes React state      *)
(* renders, a step of the clock alone does not. The help and statistics    *)
(* dialogs are display state no handler of the game reads; they are left   *)
(* out. The player types prefixes of the strings of Attempts.              *)
(***************************************************************************)
MaxDay == 4

MaxToasts == 1

\* The calendar date of day d (d <= 14 keeps it inside February 2026)
DateOfDay(d) == [year |-> 2026, month |-> 2, day |-> 14 + d]

TargetOfDay == [d \in 1..(MaxDay + 1) |-> getDailyTarget(DateOfDay(d))]

Attempts ==
  { <<"0", "5", "5", "=", "5", "5">>,     \* day 1, target 55
    <<"7", "*", "8", "=", "5", "6">>,     \* day 2, target 56
    <<"0", "5", "7", "=", "5", "7">>,     \* day 3, target 57
    <<"0", "5", "8", "=", "5", "8">>,     \* day 4, target 58
    <<"0", "5", "9", "=", "5", "9">>,     \* day 5, target 59
    <<"5", "+", "5", "=", "5", "5">>,     \* evaluates to 10
    <<"5", "/", "0", "=", "5", "5">> }    \* division by zero

CanType(cur, key) ==
  \E a \in Attempts : Len(cur) < Len(a) /\ SubSeq(a, 1, Len(cur) + 1) = Append(cur, key)

\* game.ts 294-300
loadStats(stored) == IF stored.present THEN stored.value ELSE DefaultStats

\* loadState without the comparison of line 318
loadStateAnyDay(stored, day) == stored

\* game.ts 313-322; day is getDayNumber() at the time of the call; null is NoState
loadState(stored, day) ==
  IF stored.present /\ stored.value.day = day THEN stored ELSE NoState

\* game.ts 302-304 and 324-326
saved(value) == [present |-> TRUE, value |-> value]

\* The render that follows a change of React state: App.tsx lines 10-11
Render == target' = TargetOfDay[today] /\ dayNumber' = today

\* App.tsx 13-41: the initial state of the hooks and the load effect
Mount ==
  LET state == loadState(storedState, today) IN
  /\ guesses' = (IF state.present THEN state.value.guesses ELSE <<>>)
  /\ finished' = (IF state.present THEN state.value.finished ELSE FALSE)
  /\ won' = (IF state.present THEN state.value.won ELSE FALSE)
  /\ currentGuess' = <<>>
  /\ stats' = loadStats(storedStats)
  /\ toasts' = <<>> /\ shakeRow' = FALSE /\ shakeTimers' = 0 /\ winTimer' = FALSE
  /\ Render

Init ==
  /\ today \in 1..MaxDay
  /\ target = TargetOfDay[today] /\ dayNumber = today
  /\ guesses = <<>> /\ currentGuess = <<>>
  /\ finished = FALSE /\ won = FALSE
  /\ stats = DefaultStats
  /\ toasts = <<>> /\ shakeRow = FALSE /\ shakeTimers = 0 /\ winTimer = FALSE
  /\ storedStats = NoStats /\ storedState = NoState
  /\ fn = "App" /\ arg = 0 /\ ret = 0 /\ done = FALSE

\* App.tsx 43-46: toast(msg); the timer that removes it is ToastExpire
toast(msg) == toasts' = Append(toasts, msg)

\* The value of finished the callbacks of lines 64 and 112 close over: both list
\* finished among their dependencies, so it is the current one
finishedStale == FALSE

finishedSeen == finished

\* IsDone without the win: only the last row ends the game
IsDoneLastOnly(isWin, isLast) == isLast

\* Line 79
IsDone(isWin, isLast) == isWin \/ isLast

\* Lines 88-98: the statistics after a completed game
NewStatsKeepStreak(st, isWin, nGuesses, day) ==
  LET played == [st EXCEPT !.played = @ + 1] IN
  IF isWin
  THEN LET streak == st.streak + 1
       IN  [played EXCEPT !.won = @ + 1,
                          !.streak = streak,
                          !.maxStreak = Max(@, streak),
                          !.guessDistribution[nGuesses] = @ + 1,
                          !.lastDay = day]
  ELSE [played EXCEPT !.streak = 0, !.lastDay = day]

\* NewStats that counts the win one slot further along
NewStatsNextSlot(st, isWin, nGuesses, day) ==
  LET played == [st EXCEPT !.played = @ + 1] IN
  IF isWin
  THEN LET streak == IF st.lastDay = day - 1 \/ st.lastDay = 0 THEN st.streak + 1 ELSE 1
       IN  [played EXCEPT !.won = @ + 1,
                          !.streak = streak,
                          !.maxStreak = Max(@, streak),
                          !.guessDistribution[nGuesses + 1] = @ + 1,
                          !.lastDay = day]
  ELSE [played EXCEPT !.streak = 0, !.lastDay = day]

NewStats(st, isWin, nGuesses, day) ==
  LET played == [st EXCEPT !.played = @ + 1] IN
  IF isWin
  THEN LET streak == IF st.lastDay = day - 1 \/ st.lastDay = 0 THEN st.streak + 1 ELSE 1
       IN  [played EXCEPT !.won = @ + 1,
                          !.streak = streak,
                          !.maxStreak = Max(@, streak),
                          !.guessDistribution[nGuesses] = @ + 1,
                          !.lastDay = day]
  ELSE [played EXCEPT !.streak = 0, !.lastDay = day]

\* SubmitRejected that also clears the row and records the guess
SubmitRejectedRecords(error) ==
  /\ Len(toasts) < MaxToasts /\ shakeTimers < MaxToasts
  /\ toast(error)
  /\ shakeRow' = TRUE
  /\ shakeTimers' = shakeTimers + 1
  /\ guesses' = Append(guesses, currentGuess)
  /\ currentGuess' = <<>>
  /\ storedState' = saved([day |-> dayNumber, guesses |-> Append(guesses, currentGuess),
                           finished |-> FALSE, won |-> FALSE])
  /\ Render
  /\ UNCHANGED <<today, finished, won, stats, winTimer, storedStats>>

\* Lines 67-72: the guess fails validateGuess
SubmitRejected(error) ==
  /\ Len(toasts) < MaxToasts /\ shakeTimers < MaxToasts
  /\ toast(error)
  /\ shakeRow' = TRUE
  /\ shakeTimers' = shakeTimers + 1
  /\ Render
  /\ UNCHANGED <<today, guesses, currentGuess, finished, won, stats, winTimer,
                 storedStats, storedState>>

\* Lines 74-109: the guess passes validateGuess
SubmitAccepted ==
  LET newGuesses == Append(guesses, currentGuess)
      isCorrect  == validateGuess(currentGuess, target).valid
      isWin      == isCorrect
      isLast     == Len(newGuesses) >= MAX_GUESSES
      isDone     == IsDone(isWin, isLast)
      newStats   == NewStats(stats, isWin, Len(newGuesses), dayNumber)
  IN  /\ guesses' = newGuesses
      /\ currentGuess' = <<>>
      /\ IF isDone
         THEN /\ finished' = TRUE
              /\ won' = isWin
              /\ storedStats' = saved(newStats)
              /\ stats' = newStats
              /\ winTimer' = TRUE
         ELSE UNCHANGED <<finished, won, storedStats, stats, winTimer>>
      /\ storedState' = saved([day |-> dayNumber, guesses |-> newGuesses,
                               finished |-> isDone, won |-> isWin])
      /\ Render
      /\ UNCHANGED <<today, toasts, shakeRow, shakeTimers>>

\* App.tsx 64-110
submitGuess ==
  IF finishedSeen THEN UNCHANGED appVars
  ELSE LET validation == validateGuess(currentGuess, target) IN
       IF ~validation.valid THEN SubmitRejected(validation.error)
       ELSE SubmitAccepted

\* App.tsx 112-121, key = 'Enter'
PressEnter ==
  /\ IF finishedSeen THEN UNCHANGED appVars ELSE submitGuess
  /\ UNCHANGED fnVars

\* App.tsx 112-121, key = 'Backspace'
PressBackspace ==
  /\ IF finishedSeen \/ currentGuess = <<>> THEN UNCHANGED appVars
     ELSE /\ currentGuess' = SubSeq(currentGuess, 1, Len(currentGuess) - 1)
          /\ Render
          /\ UNCHANGED <<today, guesses, finished, won, stats, toasts, shakeRow,
                         shakeTimers, winTimer, storedStats, storedState>>
  /\ UNCHANGED fnVars

\* App.tsx 112-121, key a character of VALID_CHARS
PressChar(key) ==
  /\ key \in VALID_CHARS
  /\ finishedSeen \/ Len(currentGuess) >= EQUATION_LENGTH \/ CanType(currentGuess, key)
  /\ IF finishedSeen \/ ~(Len(currentGuess) < EQUATION_LENGTH) THEN UNCHANGED appVars
     ELSE /\ currentGuess' = Append(currentGuess, key)
          /\ Render
          /\ UNCHANGED <<today, guesses, finished, won, stats, toasts, shakeRow,
                         shakeTimers, winTimer, storedStats, storedState>>
  /\ UNCHANGED fnVars

\* A key press or click that reaches handleKey
handleKey == PressEnter \/ PressBackspace \/ \E key \in VALID_CHARS : PressChar(key)

\* Line 45: setTimeout(() => setToasts(t => t.slice(1)), 2000)
ToastExpire ==
  /\ toasts # <<>>
  /\ toasts' = Tail(toasts)
  /\ Render
  /\ UNCHANGED <<today, guesses, currentGuess, finished, won, stats, shakeRow,
                 shakeTimers, winTimer, storedStats, storedState>>
  /\ UNCHANGED fnVars

\* Line 70: setTimeout(() => setShakeRow(false), 300)
ShakeEnd ==
  /\ shakeTimers > 0
  /\ shakeTimers' = shakeTimers - 1
  /\ shakeRow' = FALSE
  /\ Render
  /\ UNCHANGED <<today, guesses, currentGuess, finished, won, stats, toasts,
                 winTimer, storedStats, storedState>>
  /\ UNCHANGED fnVars

\* Lines 102-106: the toast of the finished game (isWin is the won just set)
WinToast ==
  /\ winTimer
  /\ Len(toasts) < MaxToasts
  /\ winTimer' = FALSE
  /\ toast(IF won THEN "Brilliant!" ELSE "The answer was one possible equation")
  /\ Render
  /\ UNCHANGED <<today, guesses, currentGuess, finished, won, stats, shakeRow,
                 shakeTimers, storedStats, storedState>>
  /\ UNCHANGED fnVars

\* Midnight passes while the page stays open
Tick ==
  /\ today < MaxDay
  /\ today' = today + 1
  /\ UNCHANGED <<target, dayNumber, guesses, currentGuess, finished, won, stats, toasts,
                 shakeRow, shakeTimers, winTimer, storedStats, storedState>>
  /\ UNCHANGED fnVars

\* The page is loaded again: a new App over the same localStorage
Reload ==
  /\ Mount
  /\ UNCHANGED <<today, storedStats, storedState>>
  /\ UNCHANGED fnVars

Next == handleKey \/ ToastExpire \/ ShakeEnd \/ WinToast \/ Tick \/ Reload

Spec == Init /\ [][Next]_vars

\* C8: in every state reachable by key presses and submissions the guess list has
\* at most MAX_GUESSES entries, and once finished is true a key press or submission
\* leaves the guess list, finished and won unchanged
C8_GuessesBoundedAndFrozen ==
  [][/\ Len(guesses) <= MAX_GUESSES
     /\ Len(guesses') <= MAX_GUESSES
     /\ (finished /\ handleKey => UNCHANGED <<guesses, finished, won>>)]_vars

C8_Witness ==
  /\ finished /\ won /\ Len(guesses) = 1 /\ ~winTimer
  /\ storedState.present /\ storedState.value.finished

\* C9: a submission whose guess fails validateGuess leaves the guess list, finished,
\* won, the statistics in memory and both persisted records unchanged (and the row
\* being typed); only the toast and the shake change
C9_RejectedChangesNothing ==
  [][(~finished /\ ~validateGuess(currentGuess, target).valid /\ PressEnter)
       => UNCHANGED <<guesses, currentGuess, finished, won, stats, storedStats,
                      storedState>>]_vars

C9_Witness ==
  /\ ~finished /\ guesses = <<>> /\ ~storedState.present
  /\ currentGuess = <<"5", "+", "5", "=", "5", "5">>
  /\ toasts = <<ErrValue>> /\ shakeRow

\* C10: when a game completes the streak is 0 after a loss; after a win it is the
\* previous streak + 1 when lastDay is dayNumber - 1 or 0 and otherwise 1; maxStreak
\* is at least streak afterwards
C10_StreakOnCompletion ==
  [][(~finished /\ finished' /\ PressEnter)
       => /\ (won' => stats'.streak =
                        (IF stats.lastDay = dayNumber - 1 \/ stats.lastDay = 0
                         THEN stats.streak + 1 ELSE 1))
          /\ (~won' => stats'.streak = 0)
          /\ stats'.maxStreak >= stats'.streak]_vars

C10_Witness ==
  /\ finished /\ won
  /\ stats.played = 3 /\ stats.streak = 2 /\ stats.maxStreak = 2 /\ stats.lastDay = 4

\* The game is won by this step: a submission that takes finished from false to true
\* with won true
WonNow == ~finished /\ finished' /\ won' /\ PressEnter

\* C11: guessDistribution has exactly MAX_GUESSES slots, in memory and as persisted;
\* a step changes it if and only if the step wins a game, and then exactly the slot of
\* the number of the winning guess goes up by exactly 1 and the persisted copy is the
\* same; a rejected guess, a non-finishing guess and a loss change no slot
C11_DistributionCountsWins ==
  [][/\ Len(stats.guessDistribution) = MAX_GUESSES
     /\ Len(stats'.guessDistribution) = MAX_GUESSES
     /\ (storedStats'.present => Len(storedStats'.value.guessDistribution) = MAX_GUESSES)
     /\ IF WonNow
        THEN /\ stats'.guessDistribution =
                  [stats.guessDistribution EXCEPT ![Len(guesses')] = @ + 1]
             /\ storedStats'.present
             /\ storedStats'.value.guessDistribution = stats'.guessDistribution
        ELSE /\ stats'.guessDistribution = stats.guessDistribution
             /\ storedStats' = storedStats]_vars

C11_Witness ==
  /\ finished /\ won /\ Len(guesses) = 1
  /\ stats.played = 2 /\ stats.won = 2
  /\ stats.guessDistribution = <<2, 0, 0, 0, 0, 0>>
  /\ storedStats.present /\ storedStats.value.guessDistribution = <<2, 0, 0, 0, 0, 0>>

\* C12: when the page loads, loadState returns the persisted GameState exactly when
\* one is stored and its day equals the day number computed at that moment, and then
\* the session takes its guesses, finished and won from it; a stored GameState of any
\* other day is treated as absent: null is returned and the session starts with no
\* guesses and finished = false
C12_StaleStateDiscarded ==
  [][Reload =>
       LET state == loadState(storedState, today) IN
       /\ state.present <=> (storedState.present /\ storedState.value.day = today)
       /\ state.present => /\ state = storedState
                           /\ guesses' = storedState.value.guesses
                           /\ finished' = storedState.value.finished
                           /\ won' = storedState.value.won
       /\ ~state.present => /\ state = NoState
                            /\ guesses' = <<>>
                            /\ finished' = FALSE
                            /\ won' = FALSE]_vars

\* The page loaded the day after a finished game: the stored game is still there
\* and the session is new
C12_Witness ==
  /\ storedState.present /\ storedState.value.day = today - 1
  /\ storedState.value.finished /\ Len(storedState.value.guesses) = 1
  /\ dayNumber = today
  /\ guesses = <<>> /\ ~finished /\ ~won /\ currentGuess = <<>>

(***************************************************************************)
(* SpecSameDay: the session within one calendar day. The clock does not    *)
(* pass midnight, so getDailyTarget() returns the same target at every     *)
(* render; the page may still be loaded again.                             *)
(***************************************************************************)
NextSameDay == handleKey \/ ToastExpire \/ ShakeEnd \/ WinToast \/ Reload

SpecSameDay == Init /\ [][NextSameDay]_vars

\* C13: from a fresh session with a fixed target, every entry of the guess list
\* passes validateGuess for the target, the list has at most one entry, and finished
\* implies won: the first accepted guess ends the game as a win, so a loss and a
\* second accepted guess are unreachable
C13_FirstAcceptedGuessWins ==
  /\ \A i \in 1..Len(guesses) : validateGuess(guesses[i], target).valid
  /\ Len(guesses) <= 1
  /\ finished => won
  /\ Len(guesses) = 1 => finished

C13_Witness ==
  /\ target = 56
  /\ guesses = << <<"7", "*", "8", "=", "5", "6">> >>
  /\ finished /\ won /\ currentGuess = <<>>
  /\ toasts = <<"Brilliant!">>

====
